---- MODULE Spec2Model ----
(***************************************************************************)
(* tif2webp.py: batch conversion of TIFF files to lossless WebP.           *)
(*                                                                         *)
(* Strings (paths, file names) are sequences of one-character strings so   *)
(* that basename, dirname, join, splitext, lower and endswith are computed *)
(* as the Python library computes them.  The filesystem is case-sensitive  *)
(* (POSIX).  Times are whole ticks, sizes whole bytes, ratios are exact    *)
(* fractions <<numerator, denominator>> in lowest terms.                   *)
(***************************************************************************)
EXTENDS Integers, Sequences, FiniteSets, TLC

\* ------------------------------------------------------------------ bounds
\* most TIFF-pool files a source directory holds in InitDir
MaxFiles == 2
\* most process_directory calls of the stand-alone caller
MaxCalls == 2
\* most invocations of the script in one behaviour
MaxRuns == 1
\* most lines of a manifest file
MaxLines == 2

\* ------------------------------------------------------------ string layer
UpperChars == <<"A","B","C","D","E","F","G","H","I","J","K","L","M",
                "N","O","P","Q","R","S","T","U","V","W","X","Y","Z">>
LowerChars == <<"a","b","c","d","e","f","g","h","i","j","k","l","m",
                "n","o","p","q","r","s","t","u","v","w","x","y","z">>

LowerChar(c) ==
    IF \E i \in 1..Len(UpperChars) : UpperChars[i] = c
    THEN LowerChars[CHOOSE i \in 1..Len(UpperChars) : UpperChars[i] = c]
    ELSE c

\* str.lower()
Lower(s) == [i \in 1..Len(s) |-> LowerChar(s[i])]

\* str.endswith(suffix)
EndsWith(s, suf) ==
    /\ Len(suf) <= Len(s)
    /\ SubSeq(s, Len(s) - Len(suf) + 1, Len(s)) = suf

\* str.rfind(c), 1-based, 0 when absent
RFind(s, c) ==
    IF \E i \in 1..Len(s) : s[i] = c
    THEN CHOOSE i \in 1..Len(s) : s[i] = c /\ \A j \in (i+1)..Len(s) : s[j] # c
    ELSE 0

\* str.strip() for the whitespace a manifest line carries
IsSpace(c) == c \in {" ", "\n", "\t", "\r"}

Strip(s) ==
    IF \A i \in 1..Len(s) : IsSpace(s[i]) THEN <<>>
    ELSE LET a == CHOOSE i \in 1..Len(s) :
                    ~IsSpace(s[i]) /\ \A j \in 1..(i-1) : IsSpace(s[j])
             b == CHOOSE i \in 1..Len(s) :
                    ~IsSpace(s[i]) /\ \A j \in (i+1)..Len(s) : IsSpace(s[j])
         IN  SubSeq(s, a, b)

\* os.path.basename(p): what follows the last "/"
Basename(p) == SubSeq(p, RFind(p, "/") + 1, Len(p))

RECURSIVE RStripSlash(_)
RStripSlash(s) ==
    IF s # <<>> /\ s[Len(s)] = "/" THEN RStripSlash(SubSeq(s, 1, Len(s) - 1)) ELSE s

\* os.path.dirname(p): the head up to the last "/", trailing slashes removed
\* unless the head is slashes only
Dirname(p) ==
    LET head == SubSeq(p, 1, RFind(p, "/"))
    IN  IF head # <<>> /\ (\E i \in 1..Len(head) : head[i] # "/")
        THEN RStripSlash(head) ELSE head

\* os.path.join(a, b)
Join(a, b) ==
    IF b # <<>> /\ b[1] = "/" THEN b
    ELSE IF a = <<>> \/ a[Len(a)] = "/" THEN a \o b
    ELSE a \o <<"/">> \o b

\* os.path.splitext(name)[0] for a name without separators: cut at the last
\* dot unless only dots precede it
SplitextRoot(name) ==
    LET dot == RFind(name, ".")
    IN  IF dot > 0 /\ (\E j \in 1..(dot - 1) : name[j] # ".")
        THEN SubSeq(name, 1, dot - 1) ELSE name

EXT_TIF  == <<".","t","i","f">>
EXT_TIFF == <<".","t","i","f","f">>
EXT_WEBP == <<".","w","e","b","p">>
EXT_TXT  == <<".","t","x","t">>
SUFFIX_WEBP == <<"_","w","e","b","p">>

\* name.lower().endswith(('.tif', '.tiff'))
IsTiffName(name) == EndsWith(Lower(name), EXT_TIF) \/ EndsWith(Lower(name), EXT_TIFF)

\* name.lower().endswith('.webp')
IsWebpName(name) == EndsWith(Lower(name), EXT_WEBP)

\* ------------------------------------------------------------- arithmetic
RECURSIVE GCD(_, _)
GCD(a, b) == IF b = 0 THEN a ELSE GCD(b, a % b)

\* the fraction n/d in lowest terms (d > 0)
Rat(n, d) == LET g == GCD(n, d) IN <<n \div g, d \div g>>
RatZero == <<0, 1>>
RatAdd(p, q) == Rat(p[1] * q[2] + q[1] * p[2], p[2] * q[2])
RatDivInt(p, k) == Rat(p[1], p[2] * k)

RECURSIVE SumSeq(_, _)
\* sum of field fld over a sequence of records
SumSeq(s, fld) == IF s = <<>> THEN 0 ELSE s[1][fld] + SumSeq(Tail(s), fld)

RECURSIVE RatSumSeq(_, _)
RatSumSeq(s, fld) ==
    IF s = <<>> THEN RatZero ELSE RatAdd(s[1][fld], RatSumSeq(Tail(s), fld))

Range(s) == {s[i] : i \in 1..Len(s)}

\* the orders in which os.scandir may yield the elements of S
Perms(S) ==
    {s \in [1..Cardinality(S) -> S] : \A i, j \in 1..Cardinality(S) : s[i] = s[j] => i = j}


\* ------------------------------------------------------------------- paths
CWD      == <<"/","w">>
SRC_WS   == <<"/","w","/","s">>
SRC_WP   == <<"/","w","/","p">>
SRC_VS   == <<"/","v","/","s">>
DST_WS   == <<"/","w","/","s","_","w","e","b","p">>
OUT_ROOT == <<"/","o">>
MANIFEST == <<"/","w","/","m",".","t","x","t">>
MISSING  == <<"/","w","/","n","x">>
\* None and '' are both falsy wherever the script tests a path option
NONE     == <<>>

File(d, n, sz) == [dir |-> d, name |-> n, size |-> sz]

\* ------------------------------------------------------------------- state
VARIABLES
    dirs,              \* the directories that exist
    files,             \* the regular files that exist: [dir, name, size]
    pc,                \* control point
    args,              \* main: args.target, args.output_dir
    mode,              \* main: branch taken at lines 268-315
    manifest,          \* main: the lines read from the manifest file
    directories,       \* main: directories still to visit
    total_files, total_time, total_orig_size, total_compressed_size,
    avg_file_time, compression_ratio,
    exit_status,       \* "none" while running, else 0 or 1
    errors,            \* logger.error records of the run
    runs,              \* invocations of the script so far
    tiff_dir, output_root, force_convert, webp_dir,   \* process_directory
    files_to_convert, idx, pd_total_time, success_count, file_sizes,
    ret,               \* value process_directory returns
    calls,             \* process_directory calls of the stand-alone caller
    outcomes,          \* history: the encoder invocations of the current call
    dest_before,       \* history: names in webp_dir when the call started
    prev,              \* history: the call before the current one
    ok_paths,          \* history: output paths some invocation wrote with success
    clean,             \* history: <<tiff_dir, output_root>> of all-success non-force calls
    files0,            \* history: the files at Init
    snap,              \* history: dirs and files when the run started
    processed,         \* history: process_directory calls of the run
    results            \* history: values process_directory returned in the run

fsVars   == <<dirs, files>>
mainVars == <<args, mode, manifest, directories, total_files, total_time, total_orig_size,
              total_compressed_size, avg_file_time, compression_ratio,
              exit_status, errors, runs, snap, processed, results>>
pdVars   == <<tiff_dir, output_root, force_convert, webp_dir, files_to_convert,
              idx, pd_total_time, success_count, file_sizes, ret,
              outcomes, dest_before, prev, ok_paths, clean>>
vars     == <<fsVars, pc, mainVars, pdVars, calls, files0>>

\* ------------------------------------------------------------- filesystem
IsDir(p)  == p \in dirs
IsFile(fs, p) == \E f \in fs : f.dir = Dirname(p) /\ f.name = Basename(p)
\* os.path.getsize(p)
GetSize(fs, p) == (CHOOSE f \in fs : f.dir = Dirname(p) /\ f.name = Basename(p)).size
\* creating or truncating-and-rewriting dir/name
WriteFile(fs, d, n, sz) == {f \in fs : ~(f.dir = d /\ f.name = n)} \cup {File(d, n, sz)}
\* os.makedirs(p, exist_ok=True): p and every missing ancestor
MakeDirs(p) ==
    {SubSeq(p, 1, i) : i \in {j \in 1..Len(p) : j = Len(p) \/ p[j + 1] = "/"}}
\* the entries os.scandir(d) yields that are regular files
ScanFiles(fs, d) == {f \in fs : f.dir = d}

\* --------------------------------------------------------------- encoder
\* What one cwebp subprocess can do: exit 0 having written the output, or
\* fail having written nothing, or fail leaving a truncated output behind.
\* A TIFF file is never empty (every source size is at least 1), so the
\* division of line 192 is defined whenever the encoder has succeeded.
EncoderRuns ==
    { [exit_ok |-> TRUE,  wrote |-> TRUE,  size |-> 1, elapsed |-> 2],
      [exit_ok |-> TRUE,  wrote |-> TRUE,  size |-> 2, elapsed |-> 1],
      [exit_ok |-> FALSE, wrote |-> FALSE, size |-> 0, elapsed |-> 1],
      [exit_ok |-> FALSE, wrote |-> TRUE,  size |-> 0, elapsed |-> 1] }

\* convert_to_webp: (True, elapsed) on exit 0; check=True raises otherwise,
\* the except clause logs and returns (False, 0)
convert_to_webp(run) ==
    IF run.exit_ok THEN [success |-> TRUE, elapsed |-> run.elapsed]
    ELSE [success |-> FALSE, elapsed |-> 0]

\* ------------------------------------------------------ process_directory
\* lines 133-140
WebpDir(td, root) ==
    LET base_name == Basename(td) \o SUFFIX_WEBP
    IN  IF root # NONE THEN Join(root, base_name) ELSE Join(Dirname(td), base_name)

\* lines 146-149: the paths of the TIFF files of td
TiffFiles(fs, td) == {Join(td, f.name) : f \in {g \in ScanFiles(fs, td) : IsTiffName(g.name)}}

\* a variant that keeps the extension in the names of the converted set
Converted_KeepExt(fs, wd) ==
    {f.name : f \in {g \in ScanFiles(fs, wd) : IsWebpName(g.name)}}

\* lines 156-160
Converted(fs, wd) ==
    {SplitextRoot(f.name) : f \in {g \in ScanFiles(fs, wd) : IsWebpName(g.name)}}

\* a variant that filters whatever force_convert says
FilesToConvert_AlwaysFilter(tiff_files, converted, force) ==
    SelectSeq(tiff_files, LAMBDA f : SplitextRoot(Basename(f)) \notin converted)

\* lines 152-165
FilesToConvert(tiff_files, converted, force) ==
    IF force THEN tiff_files
    ELSE SelectSeq(tiff_files, LAMBDA f : SplitextRoot(Basename(f)) \notin converted)

\* a variant that appends .webp to the whole file name (x.tif.webp)
OutputPath_Append(wd, tiff_path) == Join(wd, Basename(tiff_path) \o EXT_WEBP)

\* lines 180-181
OutputPath(wd, tiff_path) == Join(wd, SplitextRoot(Basename(tiff_path)) \o EXT_WEBP)

\* a variant that counts every file, converted or not
NextSuccessCount_All(count, success) == count + 1

\* lines 189-197
NextSuccessCount(count, success) == IF success THEN count + 1 ELSE count
NextTotalTime(t, success, elapsed) == IF success THEN t + elapsed ELSE t
NextFileSizes(sizes, success, orig_size, new_size) ==
    IF success
    THEN Append(sizes, [orig |-> orig_size, new |-> new_size,
                        ratio |-> Rat(new_size, orig_size)])
    ELSE sizes

\* line 204 and the for statement: a failure does not leave the loop
NextIdx(i, success) == i + 1

\* line 169
ZeroResult == [count |-> 0, time |-> 0, ratio |-> RatZero, orig |-> 0, comp |-> 0]

\* lines 207-214
DirectoryResult(count, time, sizes) ==
    IF sizes # <<>>
    THEN [count |-> count, time |-> time,
          ratio |-> RatDivInt(RatSumSeq(sizes, "ratio"), Len(sizes)),
          orig |-> SumSeq(sizes, "orig"), comp |-> SumSeq(sizes, "new")]
    ELSE [count |-> count, time |-> time, ratio |-> RatZero, orig |-> 0, comp |-> 0]

\* the call now ending, as the next call's history
ThisCall ==
    [dir |-> tiff_dir, root |-> output_root, wd |-> webp_dir,
     force |-> force_convert,
     failed |-> {o.path : o \in {q \in Range(outcomes) : ~q.success}}]
NoCall ==
    [dir |-> NONE, root |-> NONE, wd |-> NONE, force |-> FALSE, failed |-> {}]

\* lines 116-169: entry of process_directory up to the work list
process_directory(td, root, force) ==
    LET wd == WebpDir(td, root)
    IN  \E order \in Perms(TiffFiles(files, td)) :
          LET todo == FilesToConvert(order, Converted(files, wd), force)
          IN  /\ dirs' = dirs \cup MakeDirs(wd)
              /\ files' = files
              /\ tiff_dir' = td /\ output_root' = root /\ force_convert' = force
              /\ webp_dir' = wd
              /\ files_to_convert' = todo
              /\ idx' = 1 /\ pd_total_time' = 0 /\ success_count' = 0
              /\ file_sizes' = <<>>
              /\ IF todo = <<>>
                 THEN pc' = "ret" /\ ret' = ZeroResult
                 ELSE pc' = "convert" /\ ret' = ret
              /\ outcomes' = <<>>
              /\ dest_before' = {f.name : f \in ScanFiles(files, wd)}
              /\ prev' = ThisCall
              /\ clean' = IF tiff_dir # NONE /\ ~force_convert /\ ThisCall.failed = {}
                          THEN clean \cup {<<tiff_dir, output_root>>} ELSE clean

\* lines 178-204: one iteration of the loop, the encoder invocation included
Convert ==
    /\ pc = "convert"
    /\ idx <= Len(files_to_convert)
    /\ LET tiff_path == files_to_convert[idx]
           output_path == OutputPath(webp_dir, tiff_path)
           orig_size == GetSize(files, tiff_path)
       IN  \E run \in EncoderRuns :
             LET r == convert_to_webp(run)
                 after == IF run.wrote
                          THEN WriteFile(files, Dirname(output_path),
                                         Basename(output_path), run.size)
                          ELSE files
                 new_size == IF r.success THEN GetSize(after, output_path) ELSE 0
             IN  /\ files' = after
                 /\ file_sizes' = NextFileSizes(file_sizes, r.success, orig_size, new_size)
                 /\ pd_total_time' = NextTotalTime(pd_total_time, r.success, r.elapsed)
                 /\ success_count' = NextSuccessCount(success_count, r.success)
                 /\ idx' = NextIdx(idx, r.success)
                 /\ outcomes' = Append(outcomes,
                        [path |-> tiff_path, out |-> output_path, success |-> r.success,
                         wrote |-> run.wrote, elapsed |-> run.elapsed,
                         orig |-> orig_size, new |-> run.size])
                 /\ ok_paths' = IF r.success THEN ok_paths \cup {output_path} ELSE ok_paths
    /\ UNCHANGED <<dirs, pc, mainVars, calls, files0, tiff_dir, output_root,
                   force_convert, webp_dir, files_to_convert, ret, dest_before,
                   prev, clean>>

\* lines 206-214: the loop is over, the result is computed and returned
Finish ==
    /\ pc = "convert"
    /\ idx > Len(files_to_convert)
    /\ ret' = DirectoryResult(success_count, pd_total_time, file_sizes)
    /\ pc' = "ret"
    /\ UNCHANGED <<fsVars, mainVars, calls, files0, tiff_dir, output_root,
                   force_convert, webp_dir, files_to_convert, idx, pd_total_time,
                   success_count, file_sizes, outcomes, dest_before, prev,
                   ok_paths, clean>>

\* -------------------------------------------- process_directory on its own
\* A caller that calls process_directory on one directory again and again
\* with force_convert=False, as the manifest and auto-discovery loops do
\* over runs (lines 287-291, 307-311).
SrcPool == { File(SRC_WS, <<"x",".","t","i","f">>, 2),
             File(SRC_WS, <<"x",".","t","i","f","f">>, 1),
             File(SRC_WS, <<"X",".","T","I","F">>, 2),
             File(SRC_WS, <<"n",".","t","x","t">>, 1) }
DstPool == { File(DST_WS, <<"x",".","w","e","b","p">>, 1),
             File(DST_WS, <<"X",".","W","E","B","P">>, 1),
             File(DST_WS, <<"x",".","p","n","g">>, 1) }

InitPd ==
    /\ tiff_dir = NONE /\ output_root = NONE /\ force_convert = FALSE
    /\ webp_dir = NONE /\ files_to_convert = <<>> /\ idx = 1
    /\ pd_total_time = 0 /\ success_count = 0 /\ file_sizes = <<>>
    /\ ret = ZeroResult /\ outcomes = <<>> /\ dest_before = {}
    /\ prev = NoCall /\ ok_paths = {} /\ clean = {}

InitMainRest ==
    /\ mode = "none" /\ manifest = <<>> /\ directories = <<>>
    /\ total_files = 0 /\ total_time = 0
    /\ total_orig_size = 0 /\ total_compressed_size = 0
    /\ avg_file_time = RatZero /\ compression_ratio = RatZero
    /\ exit_status = "none" /\ errors = <<>> /\ runs = 0
    /\ snap = [dirs |-> {}, files |-> {}]
    /\ processed = <<>> /\ results = <<>>

InitDir ==
    /\ \E src \in SUBSET SrcPool, dst \in SUBSET DstPool :
         /\ Cardinality(src) <= MaxFiles
         /\ files = src \cup dst
         /\ dirs = {CWD, SRC_WS} \cup (IF dst # {} THEN {DST_WS} ELSE {})
    /\ files0 = files
    /\ pc = "idle" /\ calls = 0
    /\ args \in [target : {NONE}, output_dir : {NONE, OUT_ROOT}]
    /\ InitMainRest /\ InitPd

Call ==
    /\ pc = "idle"
    /\ calls < MaxCalls
    /\ process_directory(SRC_WS, args.output_dir, FALSE)
    /\ calls' = calls + 1
    /\ UNCHANGED <<mainVars, files0, ok_paths>>

Return ==
    /\ pc = "ret"
    /\ pc' = "idle"
    /\ UNCHANGED <<fsVars, mainVars, pdVars, calls, files0>>

NextDir == Call \/ Convert \/ Finish \/ Return

SpecDir == InitDir /\ [][NextDir]_vars


\* -------------------------------------------------------------------- main
\* lines 55-80: the immediate subdirectories of root holding a TIFF file
find_tiff_dirs(ds, fs, root) ==
    {Join(root, Basename(d)) :
        d \in {e \in ds : /\ e # root /\ Dirname(e) = root
                          /\ \E f \in ScanFiles(fs, e) : IsTiffName(f.name)}}

\* os.path.exists
Exists(p) == IsDir(p) \/ IsFile(files, p)

\* a variant that keeps the lines as read, line ends included
ManifestDirectories_NoStrip(lines) == SelectSeq(lines, LAMBDA l : Strip(l) # <<>>)

\* line 283: [line.strip() for line in f if line.strip()]
ManifestDirectories(lines) ==
    SelectSeq([i \in 1..Len(lines) |-> Strip(lines[i])], LAMBDA l : l # <<>>)

\* a variant that divides the original bytes by the converted bytes
RunCompressionRatio_Inverted(comp, orig) == IF comp # 0 THEN Rat(orig, comp) ELSE RatZero

\* line 320
RunCompressionRatio(comp, orig) == IF orig # 0 THEN Rat(comp, orig) ELSE RatZero

\* line 319
AvgFileTime(time, count) == IF count # 0 THEN Rat(time, count) ELSE RatZero

\* the lines a manifest file may hold, as iterating the file yields them
LineEnd == <<"\n">>
ManifestLines == {SRC_WS \o LineEnd, SRC_VS \o LineEnd, MISSING \o LineEnd, LineEnd}
Manifests == UNION {[1..n -> ManifestLines] : n \in 0..MaxLines}

\* what the command line may name
Targets    == {NONE, SRC_WS, MANIFEST, MISSING}
OutputDirs == {NONE, OUT_ROOT}

CallRecord(td, root, force) == [dir |-> td, wd |-> WebpDir(td, root), force |-> force]

\* lines 249-256: a new invocation of the script, a new process whose memory
\* holds nothing of the one before
ParseArgs ==
    /\ pc \in {"start", "done"}
    /\ runs < MaxRuns
    /\ runs' = runs + 1
    /\ args' \in [target : Targets, output_dir : OutputDirs]
    /\ total_files' = 0 /\ total_time' = 0
    /\ total_orig_size' = 0 /\ total_compressed_size' = 0
    /\ avg_file_time' = RatZero /\ compression_ratio' = RatZero
    /\ mode' = "none" /\ manifest' = <<>> /\ directories' = <<>>
    /\ exit_status' = "none" /\ errors' = <<>>
    /\ processed' = <<>> /\ results' = <<>>
    /\ snap' = [dirs |-> dirs, files |-> files]
    /\ pc' = "mkout"
    /\ tiff_dir' = NONE /\ output_root' = NONE /\ force_convert' = FALSE
    /\ webp_dir' = NONE /\ files_to_convert' = <<>> /\ idx' = 1
    /\ pd_total_time' = 0 /\ success_count' = 0 /\ file_sizes' = <<>>
    /\ ret' = ZeroResult /\ outcomes' = <<>> /\ dest_before' = {}
    /\ prev' = NoCall /\ ok_paths' = {} /\ clean' = {}
    /\ UNCHANGED <<fsVars, calls, files0>>

\* lines 259-262: the output directory is created when named and missing
MakeOutputDir ==
    /\ pc = "mkout"
    /\ dirs' = IF args.output_dir # NONE /\ ~Exists(args.output_dir)
               THEN dirs \cup MakeDirs(args.output_dir) ELSE dirs
    /\ pc' = "dispatch"
    /\ UNCHANGED <<files, mainVars, pdVars, calls, files0>>

\* lines 263-265: os.makedirs raises, the error is logged, sys.exit(1)
MakeOutputDirFails ==
    /\ pc = "mkout"
    /\ args.output_dir # NONE /\ ~Exists(args.output_dir)
    /\ errors' = Append(errors, [kind |-> "output_dir", path |-> args.output_dir])
    /\ exit_status' = 1
    /\ pc' = "done"
    /\ UNCHANGED <<fsVars, args, mode, manifest, directories, total_files, total_time,
                   total_orig_size, total_compressed_size, avg_file_time,
                   compression_ratio, runs, snap, processed, results,
                   pdVars, calls, files0>>

\* lines 268-275: the target is a directory
DispatchDirectory ==
    /\ pc = "dispatch"
    /\ args.target # NONE
    /\ IsDir(args.target)
    /\ mode' = "dir"
    /\ process_directory(args.target, args.output_dir, TRUE)
    /\ processed' = Append(processed, CallRecord(args.target, args.output_dir, TRUE))
    /\ UNCHANGED <<args, manifest, directories, total_files, total_time,
                   total_orig_size, total_compressed_size, avg_file_time,
                   compression_ratio, exit_status, errors, runs, snap, results,
                   ok_paths, calls, files0>>

\* lines 280-283: the target is a .txt file, its lines are read
DispatchManifest ==
    /\ pc = "dispatch"
    /\ args.target # NONE
    /\ ~IsDir(args.target)
    /\ IsFile(files, args.target) /\ EndsWith(args.target, EXT_TXT)
    /\ mode' = "manifest"
    /\ \E m \in Manifests :
         /\ manifest' = m
         /\ directories' = ManifestDirectories(m)
    /\ pc' = "loop"
    /\ UNCHANGED <<fsVars, args, total_files, total_time, total_orig_size,
                   total_compressed_size, avg_file_time, compression_ratio,
                   exit_status, errors, runs, snap, processed, results,
                   pdVars, calls, files0>>

\* lines 298-300: any other target
DispatchUnsupported ==
    /\ pc = "dispatch"
    /\ args.target # NONE
    /\ ~IsDir(args.target)
    /\ ~(IsFile(files, args.target) /\ EndsWith(args.target, EXT_TXT))
    /\ errors' = Append(errors, [kind |-> "unsupported", path |-> args.target])
    /\ exit_status' = 1
    /\ pc' = "done"
    /\ UNCHANGED <<fsVars, args, mode, manifest, directories, total_files, total_time,
                   total_orig_size, total_compressed_size, avg_file_time,
                   compression_ratio, runs, snap, processed, results,
                   pdVars, calls, files0>>

\* lines 301-304: no target, the current directory is scanned
DispatchScan ==
    /\ pc = "dispatch"
    /\ args.target = NONE
    /\ mode' = "auto"
    /\ directories' \in Perms(find_tiff_dirs(dirs, files, CWD))
    /\ pc' = "loop"
    /\ UNCHANGED <<fsVars, args, manifest, total_files, total_time, total_orig_size,
                   total_compressed_size, avg_file_time, compression_ratio,
                   exit_status, errors, runs, snap, processed, results,
                   pdVars, calls, files0>>

\* lines 285-291 and 306-311: the next directory is processed
LoopCall ==
    /\ pc = "loop"
    /\ directories # <<>>
    /\ mode = "manifest" => IsDir(Head(directories))
    /\ process_directory(Head(directories), args.output_dir, FALSE)
    /\ directories' = Tail(directories)
    /\ processed' = Append(processed, CallRecord(Head(directories), args.output_dir, FALSE))
    /\ UNCHANGED <<args, mode, manifest, total_files, total_time,
                   total_orig_size, total_compressed_size, avg_file_time,
                   compression_ratio, exit_status, errors, runs, snap, results,
                   ok_paths, calls, files0>>

\* lines 296-297: a manifest entry that is no directory is logged and skipped
LoopSkip ==
    /\ pc = "loop"
    /\ directories # <<>>
    /\ mode = "manifest" /\ ~IsDir(Head(directories))
    /\ errors' = Append(errors, [kind |-> "not_found", path |-> Head(directories)])
    /\ directories' = Tail(directories)
    /\ UNCHANGED <<fsVars, pc, args, mode, manifest, total_files, total_time,
                   total_orig_size, total_compressed_size, avg_file_time,
                   compression_ratio, exit_status, runs, snap, processed, results,
                   pdVars, calls, files0>>

\* lines 276-279, 292-295, 312-315: the returned values are added to the totals
Accumulate ==
    /\ pc = "ret"
    /\ total_files' = total_files + ret.count
    /\ total_time' = total_time + ret.time
    /\ total_orig_size' = total_orig_size + ret.orig
    /\ total_compressed_size' = total_compressed_size + ret.comp
    /\ results' = Append(results, ret)
    /\ pc' = "loop"
    /\ UNCHANGED <<fsVars, args, mode, manifest, directories, avg_file_time,
                   compression_ratio, exit_status, errors, runs, snap, processed,
                   pdVars, calls, files0>>

\* lines 317-333: the statistics are computed and logged, the script ends
Report ==
    /\ pc = "loop"
    /\ directories = <<>>
    /\ avg_file_time' = AvgFileTime(total_time, total_files)
    /\ compression_ratio' = RunCompressionRatio(total_compressed_size, total_orig_size)
    /\ exit_status' = 0
    /\ pc' = "done"
    /\ UNCHANGED <<fsVars, args, mode, manifest, directories, total_files, total_time,
                   total_orig_size, total_compressed_size, errors, runs, snap,
                   processed, results, pdVars, calls, files0>>

\* the tree the script is started in: three source directories, two of them
\* with the same base name, a manifest file, and the output an earlier run
\* left for x.tif of /w/s
BaseFiles == { File(SRC_WS, <<"x",".","t","i","f">>, 2),
               File(SRC_WS, <<"y",".","t","i","f","f">>, 1),
               File(SRC_WS, <<"n",".","t","x","t">>, 1),
               File(SRC_WP, <<"z",".","T","I","F">>, 1),
               File(SRC_VS, <<"x",".","t","i","f">>, 1),
               File(CWD, <<"m",".","t","x","t">>, 1) }
EarlierOutput == File(DST_WS, <<"x",".","w","e","b","p">>, 1)

Init ==
    /\ files = BaseFiles \cup {EarlierOutput}
    /\ dirs = {CWD, SRC_WS, SRC_WP, <<"/","v">>, SRC_VS, DST_WS}
    /\ files0 = files
    /\ pc = "start" /\ calls = 0
    /\ args = [target |-> NONE, output_dir |-> NONE]
    /\ InitMainRest /\ InitPd

Next ==
    \/ ParseArgs \/ MakeOutputDir \/ MakeOutputDirFails
    \/ DispatchDirectory \/ DispatchManifest \/ DispatchUnsupported \/ DispatchScan
    \/ LoopCall \/ LoopSkip \/ Accumulate \/ Report
    \/ Convert \/ Finish

Spec == Init /\ [][Next]_vars

\* ---------------------------------------------------------------- claims
Called  == pc \in {"convert", "ret"}
BaseOf(path) == SplitextRoot(Basename(path))
Successes == SelectSeq(outcomes, LAMBDA o : o.success)

\* some .webp file of the destination, as it was when the call started, has
\* the base name of tiff file t, base names compared without regard to case
MatchIgnoringCase(t) ==
    \E n \in dest_before :
        IsWebpName(n) /\ Lower(SplitextRoot(n)) = Lower(BaseOf(t))
\* the same with base names compared exactly
MatchExact(t) ==
    \E n \in dest_before : IsWebpName(n) /\ SplitextRoot(n) = BaseOf(t)

SelectionIs(Match(_)) ==
    LET tiffs == TiffFiles(files, tiff_dir)
    IN  /\ \A t \in tiffs : (t \in Range(files_to_convert)) <=> ~Match(t)
        /\ Len(files_to_convert) =
             Cardinality(tiffs) - Cardinality({t \in tiffs : Match(t)})
        /\ \A i \in 1..Len(outcomes) : ~Match(outcomes[i].path)

C2_SecondRunSelectsNothing ==
    (Called /\ ~force_convert /\ <<tiff_dir, output_root>> \in clean)
        => files_to_convert = <<>> /\ outcomes = <<>> /\ ret.count = 0

C2_Witness ==
    /\ pc = "ret" /\ ~force_convert
    /\ <<tiff_dir, output_root>> \in clean
    /\ \E t \in TiffFiles(files, tiff_dir) : OutputPath(webp_dir, t) \in ok_paths

\* C4: a failed invocation does not end the call: the files of the work list
\* reach the encoder one after the other, all of them by the time the call
\* returns, and the result counts and sums the successful invocations only
\* (all zero when there is none).
C4_FailureIsolation ==
    Called =>
        /\ \A i \in 1..Len(outcomes) : outcomes[i].path = files_to_convert[i]
        /\ pc = "convert" => Len(outcomes) = idx - 1 /\ idx <= Len(files_to_convert) + 1
        /\ pc = "ret" =>
             /\ Len(outcomes) = Len(files_to_convert)
             /\ ret.count = Len(Successes)
             /\ ret.time = SumSeq(Successes, "elapsed")
             /\ ret.orig = SumSeq(Successes, "orig")
             /\ ret.comp = SumSeq(Successes, "new")
             /\ Successes = <<>> => ret = ZeroResult

C4_Witness ==
    /\ pc = "ret"
    /\ \E i, j \in 1..Len(outcomes) : i < j /\ ~outcomes[i].success /\ outcomes[j].success
    /\ ret.count = 1

\* C8: in one call two selected source files never get the same output path,
\* and the number of output files written equals the success count.
C8_OutputsOneToOne ==
    Called =>
        /\ \A i, j \in 1..Len(files_to_convert) :
             i # j => OutputPath(webp_dir, files_to_convert[i])
                        # OutputPath(webp_dir, files_to_convert[j])
        /\ pc = "ret" => Cardinality({o.out : o \in Range(Successes)}) = ret.count

\* C10: a file whose invocation failed in the previous call on the directory
\* is selected again by the next call without force_convert, unless an
\* invocation writing its output path succeeded or that output existed at
\* the start.
C10_FailedStaysPending ==
    (Called /\ ~force_convert /\ prev.dir = tiff_dir /\ prev.wd = webp_dir) =>
        \A f \in prev.failed :
            ( /\ OutputPath(webp_dir, f) \notin ok_paths
              /\ ~\E g \in files0 : /\ g.dir = webp_dir /\ IsWebpName(g.name)
                                    /\ SplitextRoot(g.name) = BaseOf(f) )
            => f \in Range(files_to_convert)


\* C3: a target that is a directory makes main call process_directory once,
\* on that directory, with force_convert=True, and every TIFF file of the
\* directory reaches the encoder in that call whatever the destination held.
C3_DirectoryTargetConvertsAll ==
    mode = "dir" =>
        /\ Len(processed) = 1
        /\ processed[1].dir = args.target /\ processed[1].force
        /\ tiff_dir = args.target /\ force_convert
        /\ Range(files_to_convert) = TiffFiles(files, args.target)
        /\ pc \in {"ret", "loop", "done"} =>
             {o.path : o \in Range(outcomes)} = TiffFiles(files, args.target)

C3_Witness ==
    /\ mode = "dir" /\ pc = "done"
    /\ Cardinality(TiffFiles(files, args.target)) >= 2
    /\ \E o \in Range(outcomes) : MatchExact(o.path)

MeanOf(rs) == RatDivInt(RatSumSeq(rs, "ratio"), Len(rs))

\* C5: the run totals are the field-wise sums of the values process_directory
\* returned in the run, and the reported ratio is total converted bytes over
\* total original bytes (0 when there are no original bytes).
C5_TotalsAreSums ==
    /\ pc \in {"loop", "done"} =>
         /\ total_files = SumSeq(results, "count")
         /\ total_time = SumSeq(results, "time")
         /\ total_orig_size = SumSeq(results, "orig")
         /\ total_compressed_size = SumSeq(results, "comp")
         /\ Len(results) = Len(processed)
    /\ (pc = "done" /\ exit_status = 0) =>
         compression_ratio =
             IF SumSeq(results, "orig") = 0 THEN RatZero
             ELSE Rat(SumSeq(results, "comp"), SumSeq(results, "orig"))

C5_Witness ==
    /\ pc = "done" /\ exit_status = 0
    /\ Len(results) = 2
    /\ results[1].count > 0 /\ results[2].count > 0
    /\ compression_ratio # MeanOf(results)

\* C6: a target that is neither a directory nor a .txt file ends the run with
\* status 1 and, whatever -o names, without any directory created or
\* changed and without any process_directory call.
C6_UnsupportedTargetTouchesNothing ==
    ( /\ pc = "done" /\ args.target # NONE
      /\ ~IsDir(args.target)
      /\ ~(IsFile(files, args.target) /\ EndsWith(args.target, EXT_TXT)) )
    => /\ exit_status = 1
       /\ dirs = snap.dirs /\ files = snap.files
       /\ processed = <<>>

NonBlank == SelectSeq([i \in 1..Len(manifest) |-> Strip(manifest[i])], LAMBDA l : l # <<>>)

\* C7: in manifest mode the lines naming existing directories are processed
\* in manifest order with force_convert=False, every other non-blank line is
\* logged and skipped, and the run ends with status 0.
C7_ManifestRecovery ==
    (mode = "manifest" /\ pc = "done") =>
        /\ [i \in 1..Len(processed) |-> processed[i].dir] = SelectSeq(NonBlank, IsDir)
        /\ \A i \in 1..Len(processed) : ~processed[i].force
        /\ [i \in 1..Len(errors) |-> errors[i].path]
             = SelectSeq(NonBlank, LAMBDA l : ~IsDir(l))
        /\ exit_status = 0

C7_Witness ==
    /\ mode = "manifest" /\ pc = "done"
    /\ Len(manifest) = 2
    /\ ~IsDir(Strip(manifest[1])) /\ Strip(manifest[1]) # <<>>
    /\ Len(processed) = 1 /\ Len(errors) = 1
    /\ results[1].count > 0

\* C9: two distinct source directories processed in one manifest or
\* auto-discovery run are mapped to two distinct destination directories.
C9_DistinctDestinations ==
    mode \in {"manifest", "auto"} =>
        \A i, j \in 1..Len(processed) :
            processed[i].dir # processed[j].dir => processed[i].wd # processed[j].wd

====
